---------------------------- MODULE Spec2Model ----------------------------
(***************************************************************************)
(* Log tailing and log-entry parsing of systematic:                        *)
(*   systematic/log.py   LogEntry, LogFile (cached, multi-cursor iterator) *)
(*   systematic/tail.py  TailReader (tail -f style follower)               *)
(*                                                                         *)
(* Text is modelled as a sequence of lexemes (strings); whitespace and     *)
(* punctuation are lexemes of their own, so that splitting and stripping   *)
(* are computed the way the Python string methods compute them.            *)
(***************************************************************************)
EXTENDS Integers, Sequences, FiniteSets, TLC

VARIABLES
    \* ---- LogFile (systematic/log.py) ----
    fileLines,   \* the lines of the log file on disk (indices into LineText)
    isStream,    \* TRUE when `path` is a file-like object (has readline)
    fileYear,    \* year of the file's modification time
    clockYear,   \* year of datetime.now()
    cache,       \* the list part of LogFile: the parsed entries
    iterators,   \* LogFile.iterators: cursor name -> None or integer
    loaded,      \* LogFile.__loaded
    fd,          \* LogFile.fd: "None", "caller", "opened" or "path"
    off,         \* read offset (in lines) of the object LogFile.fd reads
    mtime,       \* LogFile.mtime (a year; 0 while None)
    res,         \* outcome of the last LogFile operation
    got,         \* history: per cursor, what it returned since its last
                 \* exhaustion signal
    opens,       \* history: times the file was opened (counted up to 2)
    \* ---- TailReader (systematic/tail.py) ----
    inodes,      \* file system: inode -> content (sequence of line ids)
    pathIno,     \* inode the followed path names, 0 when the path is absent
    nextIno,     \* next unused inode number
    readable,    \* os.access(path, R_OK)
    tfd,         \* TailReader.fd: NoHandle or an open handle [ino, off]
    tstat,       \* TailReader.stat: 0 (None) or the st_ino of the snapshot
    tpos,        \* TailReader.pos
    tyear,       \* TailReader.year (0 while unset)
    pc,          \* position of the reader inside readline / load
    tres,        \* outcome of the last readline call
    hist,        \* history of the reader's current handle and call
    \* ---- LogFileCollection (systematic/log.py) ----
    collInput,   \* the path list given to the constructor
    collMtime,   \* file system: path -> st_mtime, in tenths of a second
    collLines,   \* file system: path -> lines of the file
    logfiles,    \* LogFileCollection.logfiles: [path, f: LogFile fields]
    iterIndex,   \* LogFileCollection.__iter_index (None or an index)
    collRes,     \* outcome of the last collection operation, with the
                 \* history of the iteration since its last exhaustion
    \* ---- LogEntry, the source patterns (systematic/log.py) ----
    source,      \* the text before the first ':' of a line, stripped
    fields       \* the named groups LogEntry.__init__ set from it

logVars  == <<fileLines, isStream, fileYear, clockYear, cache, iterators,
              loaded, fd, off, mtime, res, got, opens>>
fsVars   == <<inodes, pathIno, nextIno, readable>>
rdVars   == <<tfd, tstat, tpos, tyear, pc, tres, hist>>
tailVars == <<fsVars, rdVars>>
collVars == <<collInput, collMtime, collLines, logfiles, iterIndex, collRes>>
srcVars  == <<source, fields>>
vars     == <<logVars, tailVars, collVars, srcVars>>

-----------------------------------------------------------------------------
(* Bounds of the model *)

MaxLines == 2      \* longest log file read by a LogFile
MaxCache == 3      \* advance is not modelled once the cache holds this many
MaxTail == 2       \* longest content of a file the TailReader follows
MaxInodes == 2     \* number of files ever created at the followed path
MaxFiles == 3      \* number of paths a LogFileCollection is given
MaxBlanks == 2     \* longest run of blanks between the parts of a source

-----------------------------------------------------------------------------
(* Text *)

\* The raw lines that occur in the modelled files, without their newline.
LineText == <<
    <<"Jan", " ", "5", " ", "03:14:15", " ", "host1", " ", "sshd", "[",
      "1234", "]", ":", " ", "Accepted">>,
    <<"Dec", " ", "31", " ", "23:59:59", " ", "last", " ", "message">>,
    <<" ", "continued">>,
    <<"garbage">>,
    <<"Foo", " ", "5", " ", "03:14:15", " ", "host1", " ", "cron", ":",
      " ", "x">> >>

LineIds == 1..Len(LineText)

FileLineIds == {1, 2, 3, 4}    \* lines of the files a LogFile reads

IsSpace(x) == x \in {" ", "\t", "\n"}

RECURSIVE LStrip(_)
LStrip(s) == IF s # <<>> /\ IsSpace(Head(s)) THEN LStrip(Tail(s)) ELSE s

RECURSIVE RStrip(_)
RStrip(s) ==
    IF s # <<>> /\ IsSpace(s[Len(s)]) THEN RStrip(SubSeq(s, 1, Len(s) - 1))
    ELSE s

Strip(s) == LStrip(RStrip(s))

\* Length of the longest prefix of s without whitespace.
RECURSIVE TokenLen(_)
TokenLen(s) ==
    IF s = <<>> \/ IsSpace(Head(s)) THEN 0 ELSE 1 + TokenLen(Tail(s))

\* str.split(None, n): at most n splits on runs of whitespace; the rest of
\* the text, leading whitespace removed, is the last element.
RECURSIVE SplitWS(_, _)
SplitWS(s, n) ==
    LET t == LStrip(s) IN
    IF t = <<>> THEN <<>>
    ELSE IF n = 0 THEN <<t>>
    ELSE LET k == TokenLen(t) IN
         <<SubSeq(t, 1, k)>> \o SplitWS(SubSeq(t, k + 1, Len(t)), n - 1)

\* Index of the first ":" lexeme of s, 0 when there is none.
RECURSIVE ColonAt(_, _)
ColonAt(s, i) ==
    IF i > Len(s) THEN 0 ELSE IF s[i] = ":" THEN i ELSE ColonAt(s, i + 1)

\* str.split(':', 1)
SplitColon(s) ==
    LET i == ColonAt(s, 1) IN
    IF i = 0 THEN <<s>>
    ELSE <<SubSeq(s, 1, i - 1), SubSeq(s, i + 1, Len(s))>>

Months == {"Jan", "Feb", "Mar", "Apr", "May", "Jun", "Jul", "Aug", "Sep",
           "Oct", "Nov", "Dec"}
Days   == {"1", "5", "28", "31"}
Clocks == {"03:14:15", "23:59:59"}

\* datetime.strptime('{year} {mon} {day} {time}', '%Y %b %d %H:%M:%S')
Strptime(year, mon, day, time) ==
    IF /\ Len(mon) = 1 /\ mon[1] \in Months
       /\ Len(day) = 1 /\ day[1] \in Days
       /\ Len(time) = 1 /\ time[1] \in Clocks
    THEN [ok |-> TRUE, value |-> <<year, mon[1], day[1], time[1]>>]
    ELSE [ok |-> FALSE, value |-> <<>>]

Absent == <<"None">>     \* the source of a line without ':'

NoEntry == [lineno |-> 0, line |-> <<>>, time |-> <<>>, source |-> <<>>,
            message |-> <<>>]

\* LogEntry.__init__: ok = FALSE stands for LogFileError.  lineno is the
\* position of the line in the file it was read from (the entry's identity).
LogEntry(lineno, rawline, year) ==
    LET line  == RStrip(rawline)
        parts == SplitWS(line, 3)
    IN  IF Len(parts) # 4 THEN [ok |-> FALSE, entry |-> NoEntry]
        ELSE LET t == Strptime(year, parts[1], parts[2], parts[3]) IN
             IF ~t.ok THEN [ok |-> FALSE, entry |-> NoEntry]
             ELSE LET sm == SplitColon(parts[4]) IN
                  [ok |-> TRUE,
                   entry |->
                      [lineno  |-> lineno,
                       line    |-> line,
                       time    |-> t.value,
                       source  |-> IF Len(sm) = 2 THEN Strip(sm[1])
                                   ELSE Absent,
                       message |-> IF Len(sm) = 2 THEN Strip(sm[2])
                                   ELSE parts[4]]]

\* LogEntry.append
EntryAppend(entry, rawline) ==
    [entry EXCEPT !.message = @ \o <<"\n">> \o RStrip(rawline)]

\* What a handle's readline() gives for line id: the text and its newline.
RawLine(id) == LineText[id] \o <<"\n">>


-----------------------------------------------------------------------------
(* LogFile: the cached, multi-cursor file iterator *)

None == 0 - 1            \* an unset cursor position (Python None)

Names == {"default", "A"}                  \* cursor names callers use
Callbacks == {"none", "hasSource", "never"}  \* predicates callers pass

\* callback(entry); "none" stands for callback=None
Accepts(cb, entry) ==
    \/ cb = "none"
    \/ cb = "hasSource" /\ entry.source # Absent

RECURSIVE SeqsUpTo(_, _)
SeqsUpTo(S, n) ==
    IF n = 0 THEN {<<>>}
    ELSE LET shorter == SeqsUpTo(S, n - 1) IN
         shorter \cup {Append(q, x) : q \in {r \in shorter : Len(r) = n - 1},
                                       x \in S}

\* LogFile.get_iterator: an unset position is stored as 0 and returned
GetIterator(pos) == IF pos = None THEN 0 ELSE pos

\* Faulty variant: a call without a value leaves the position where it is
UpdateIteratorStay(pos, value) ==
    IF value # None THEN value ELSE pos

\* LogFile.update_iterator(name, value): the position after the call
UpdateIterator(pos, value) ==
    IF value # None THEN value
    ELSE IF pos # None THEN pos + 1 ELSE 0

\* Faulty variant: an exhausted cursor stays where it is
ResetIteratorNot(pos) == pos

\* LogFile.reset_iterator
ResetIterator(pos) == None

\* LogFile.__open_logfile__ and the handle assignment around it: the handle
\* next_iterator_match installs while the file is not loaded.  The gzip, bz2
\* and plain decoders all deliver the file's lines from its first line.
OpenLogfile(s) ==
    IF s.fd = "None" THEN s
    ELSE IF s.stream
         THEN [s EXCEPT !.fd = "path", !.mtime = s.cyear]
         ELSE [s EXCEPT !.fd = "opened", !.off = 0, !.mtime = s.fyear,
                        !.opens = IF @ < 2 THEN @ + 1 ELSE @]

\* Faulty variant: a line that does not parse is skipped, as the tail reader does
RECURSIVE ReadlineSkip(_)
ReadlineSkip(s) ==
    IF s.fd = "None" THEN [s |-> s, out |-> "error", entry |-> NoEntry]
    ELSE IF s.off >= Len(s.lines)
    THEN [s |-> [s EXCEPT !.loaded = TRUE], out |-> "eof", entry |-> NoEntry]
    ELSE LET lineno == s.off + 1
             line   == RawLine(s.lines[lineno])
             s1     == [s EXCEPT !.off = lineno, !.last = lineno,
                                 !.steps = @ + 1]
         IN  IF line[1] \in {" ", "\t"} /\ Len(s.cache) > 0
             THEN ReadlineSkip([s1 EXCEPT
                      !.cache[Len(s.cache)] = EntryAppend(@, line)])
             ELSE LET e == LogEntry(lineno, line, s.mtime) IN
                  IF e.ok
                  THEN [s |-> [s1 EXCEPT !.cache = Append(@, e.entry)],
                        out |-> "entry", entry |-> e.entry]
                  ELSE ReadlineSkip(s1)

\* Faulty variant: a continuation line is appended to the first cached entry
RECURSIVE ReadlineFirst(_)
ReadlineFirst(s) ==
    IF s.fd = "None" THEN [s |-> s, out |-> "error", entry |-> NoEntry]
    ELSE IF s.off >= Len(s.lines)
    THEN [s |-> [s EXCEPT !.loaded = TRUE], out |-> "eof", entry |-> NoEntry]
    ELSE LET lineno == s.off + 1
             line   == RawLine(s.lines[lineno])
             s1     == [s EXCEPT !.off = lineno, !.last = lineno,
                                 !.steps = @ + 1]
         IN  IF line[1] \in {" ", "\t"} /\ Len(s.cache) > 0
             THEN ReadlineFirst([s1 EXCEPT
                      !.cache[1] = EntryAppend(@, line)])
             ELSE LET e == LogEntry(lineno, line, s.mtime) IN
                  IF e.ok
                  THEN [s |-> [s1 EXCEPT !.cache = Append(@, e.entry)],
                        out |-> "entry", entry |-> e.entry]
                  ELSE [s |-> s1, out |-> "error", entry |-> NoEntry]

\* LogFile.readline.  s is the iterator's state during one advance (lines,
\* stream, fyear, cyear: the file behind the path; last: the line the
\* handle delivered last in this advance, 0 when none; steps: the lines
\* read and the passes through a loop of next_iterator_match so far in
\* this advance);
\* out is "entry", "eof" (readline returned None) or "error" (LogFileError).
RECURSIVE Readline(_)
Readline(s) ==
    IF s.fd = "None" THEN [s |-> s, out |-> "error", entry |-> NoEntry]
    ELSE IF s.off >= Len(s.lines)
    THEN [s |-> [s EXCEPT !.loaded = TRUE], out |-> "eof", entry |-> NoEntry]
    ELSE LET lineno == s.off + 1
             line   == RawLine(s.lines[lineno])
             s1     == [s EXCEPT !.off = lineno, !.last = lineno,
                                 !.steps = @ + 1]
         IN  IF line[1] \in {" ", "\t"} /\ Len(s.cache) > 0
             THEN Readline([s1 EXCEPT
                      !.cache[Len(s.cache)] = EntryAppend(@, line)])
             ELSE LET e == LogEntry(lineno, line, s.mtime) IN
                  IF e.ok
                  THEN [s |-> [s1 EXCEPT !.cache = Append(@, e.entry)],
                        out |-> "entry", entry |-> e.entry]
                  ELSE [s |-> s1, out |-> "error", entry |-> NoEntry]

\* One more pass through a loop of next_iterator_match
Tick(s) == [s EXCEPT !.steps = @ + 1]

\* An advance is followed for this many steps: two for every line of the
\* file (read it, hand its entry to the callback), one for every cached
\* entry and two to find the end.  One that needs more is recorded as
\* still "running".
StepLimit(s) == 2 * Len(s.lines) + Len(s.cache) + 2

\* The loop of next_iterator_match while the file is not loaded (528-548)
RECURSIVE LoopRead(_, _)
LoopRead(s0, cb) ==
    LET s == Tick(s0)
        p == GetIterator(s.pos) IN
    IF s.steps > StepLimit(s)
    THEN [s |-> s, kind |-> "running", entry |-> NoEntry]
    ELSE IF p < Len(s.cache) - 1
    THEN LET entry == s.cache[p + 1]
             s1    == [s EXCEPT !.pos = UpdateIterator(p, Len(s.cache) - 1)]
         IN  IF Accepts(cb, entry)
             THEN [s |-> s1, kind |-> "entry", entry |-> entry]
             ELSE LoopRead(s1, cb)
    ELSE LET r == Readline([s EXCEPT !.pos = p]) IN
         IF r.out = "error"
         THEN [s |-> r.s, kind |-> "error", entry |-> NoEntry]
         ELSE IF r.out = "eof"
         THEN [s |-> [r.s EXCEPT !.pos = ResetIterator(@)],
               kind |-> "stop", entry |-> NoEntry]
         ELSE LET s1 == [r.s EXCEPT
                            !.pos = UpdateIterator(p, Len(r.s.cache) - 1)]
              IN  IF Accepts(cb, r.entry)
                  THEN [s |-> s1, kind |-> "entry", entry |-> r.entry]
                  ELSE LoopRead(s1, cb)

\* The loop of next_iterator_match over the cache once loaded (550-568)
RECURSIVE LoopCached(_, _)
LoopCached(s0, cb) ==
    LET s == Tick(s0)
        p == GetIterator(s.pos) IN
    IF s.steps > StepLimit(s)
    THEN [s |-> s, kind |-> "running", entry |-> NoEntry]
    ELSE IF p >= Len(s.cache)
    THEN [s |-> [s EXCEPT !.pos = ResetIterator(@)],
          kind |-> "stop", entry |-> NoEntry]
    ELSE LET entry == s.cache[p + 1]
             s1    == [s EXCEPT !.pos = UpdateIterator(p, None)]
         IN  IF Accepts(cb, entry)
             THEN [s |-> s1, kind |-> "entry", entry |-> entry]
             ELSE LoopCached(s1, cb)

\* The fields of the LogFile
\* together with the file behind its path
LogFileState ==
    [cache |-> cache, iterators |-> iterators, off |-> off,
     loaded |-> loaded, fd |-> fd, mtime |-> mtime, opens |-> opens,
     lines |-> fileLines, stream |-> isStream, fyear |-> fileYear,
     cyear |-> clockYear]

\* LogFile.next_iterator_match(iterator, callback) for a registered name,
\* on a LogFile whose fields are f
NextIteratorMatchIn(f, name, cb) ==
    LET s0 == [cache |-> f.cache, pos |-> f.iterators[name], off |-> f.off,
               loaded |-> f.loaded, fd |-> f.fd, mtime |-> f.mtime,
               opens |-> f.opens, last |-> 0, steps |-> 0,
               lines |-> f.lines, stream |-> f.stream, fyear |-> f.fyear,
               cyear |-> f.cyear]
    IN  IF ~f.loaded
        THEN LoopRead(OpenLogfile(s0), cb)
        ELSE LoopCached(
                 [s0 EXCEPT !.pos = IF @ = None THEN UpdateIterator(@, None)
                                    ELSE @], cb)

NextIteratorMatch(name, cb) == NextIteratorMatchIn(LogFileState, name, cb)

\* Faulty variant: the position is written to every cursor
StorePositionAll(its, name, pos) == [n \in DOMAIN its |-> pos]

\* The cursor table after an advance on `name` left its position at pos
StorePosition(its, name, pos) == [its EXCEPT ![name] = pos]

\* The lines of a file that begin an entry, in file order: a line that
\* parses and is not a continuation of an earlier entry.
RECURSIVE EntryLinesOf(_, _, _)
EntryLinesOf(lines, i, have) ==
    IF i > Len(lines) THEN <<>>
    ELSE LET line == RawLine(lines[i]) IN
         IF line[1] \in {" ", "\t"} /\ have
         THEN EntryLinesOf(lines, i + 1, have)
         ELSE IF LogEntry(i, line, 0).ok
              THEN <<i>> \o EntryLinesOf(lines, i + 1, TRUE)
              ELSE EntryLinesOf(lines, i + 1, have)

EntryLines(i, have) == EntryLinesOf(fileLines, i, have)

\* history of one cursor since its last exhaustion signal: n entries were
\* returned to it; inOrder: each was the file's next entry, none skipped,
\* none repeated; pure: no advance passed a callback
NoGot == [n |-> 0, inOrder |-> TRUE, pure |-> TRUE]

\* the history of a cursor after an advance with outcome r
Returned(h, r, cb) ==
    IF r.kind # "entry" THEN [h EXCEPT !.pure = @ /\ cb = "none"]
    ELSE LET exp == EntryLines(1, FALSE) IN
         [n |-> h.n + 1,
          inOrder |-> /\ h.inOrder
                      /\ h.n < Len(exp)
                      /\ r.entry.lineno = exp[h.n + 1],
          pure |-> h.pure /\ cb = "none"]

\* the record of an operation that returned no entry
Outcome(op, name, cb, kind) ==
    [op |-> op, name |-> name, cb |-> cb, kind |-> kind, entry |-> NoEntry,
     seen |-> NoGot, last |-> 0, found |-> <<>>]

InitLog ==
    /\ fileLines \in SeqsUpTo(FileLineIds, MaxLines)
    /\ isStream \in BOOLEAN
    /\ fileYear \in {2024}
    /\ clockYear \in {2025}
    /\ cache = <<>>
    /\ iterators = [n \in {"default"} |-> None]
    /\ loaded = FALSE
    /\ fd = "None"
    /\ off = 0
    /\ mtime = 0
    /\ res = Outcome("init", "", "none", "ok")
    /\ got = [n \in Names |-> NoGot]
    /\ opens = 0

\* Faulty variant: registering a name again resets its cursor
RegisterIteratorAgain(name) ==
    /\ res' = Outcome("register", name, "none", "ok")
    /\ iterators' = [n \in DOMAIN iterators \cup {name} |->
                       IF n = name THEN None ELSE iterators[n]]
    /\ UNCHANGED <<fileLines, isStream, fileYear, clockYear, cache, loaded,
                   fd, off, mtime, got, opens, tailVars, collVars,
                   srcVars>>

\* LogFile.register_iterator(name)
RegisterIterator(name) ==
    /\ IF name \in DOMAIN iterators
       THEN /\ res' = Outcome("register", name, "none", "error")
            /\ UNCHANGED iterators
       ELSE /\ res' = Outcome("register", name, "none", "ok")
            /\ iterators' = [n \in DOMAIN iterators \cup {name} |->
                               IF n = name THEN None ELSE iterators[n]]
    /\ UNCHANGED <<fileLines, isStream, fileYear, clockYear, cache, loaded,
                   fd, off, mtime, got, opens, tailVars, collVars,
                   srcVars>>

\* The caller assigns a handle to the public attribute LogFile.fd
AssignHandle ==
    /\ fd = "None"
    /\ fd' = "caller"
    /\ res' = Outcome("assign", "", "none", "ok")
    /\ UNCHANGED <<fileLines, isStream, fileYear, clockYear, cache,
                   iterators, loaded, off, mtime, got, opens, tailVars, collVars,
                   srcVars>>

\* LogFile.next_iterator_match(name, callback); next() is name = "default"
Advance(name, cb) ==
    /\ Len(cache) < MaxCache
    /\ IF name \notin DOMAIN iterators
       THEN /\ res' = Outcome("advance", name, cb, "error")
            /\ UNCHANGED <<cache, iterators, loaded, fd, off, mtime, got,
                           opens>>
       ELSE \E r \in {NextIteratorMatch(name, cb)} :
            \E g \in {Returned(got[name], r, cb)} :
                /\ cache' = r.s.cache
                /\ iterators' = StorePosition(iterators, name, r.s.pos)
                /\ loaded' = r.s.loaded
                /\ fd' = r.s.fd
                /\ off' = r.s.off
                /\ mtime' = r.s.mtime
                /\ opens' = r.s.opens
                /\ res' = [op |-> "advance", name |-> name, cb |-> cb,
                           kind |-> r.kind, entry |-> r.entry, seen |-> g,
                           last |-> r.s.last, found |-> <<>>]
                /\ got' = [got EXCEPT ![name] =
                              IF r.kind = "stop" THEN NoGot ELSE g]
    /\ UNCHANGED <<fileLines, isStream, fileYear, clockYear, tailVars, collVars,
                   srcVars>>

NextLog ==
    \/ \E name \in Names : RegisterIterator(name)
    \/ AssignHandle
    \/ \E name \in Names, cb \in Callbacks : Advance(name, cb)

\* ---- reload and the bulk filters ----

\* The element of a one-element set: binds a computed value once
TheOne(S) == CHOOSE x \in S : TRUE

\* The fields of a LogFile f after next_iterator_match(name, ...) ended as r
Stored(f, name, r) ==
    [cache |-> r.s.cache,
     iterators |-> StorePosition(f.iterators, name, r.s.pos),
     off |-> r.s.off, loaded |-> r.s.loaded, fd |-> r.s.fd,
     mtime |-> r.s.mtime, opens |-> r.s.opens,
     lines |-> f.lines, stream |-> f.stream, fyear |-> f.fyear,
     cyear |-> f.cyear]

\* LogFile.reload on a LogFile whose fields are f: the cache is emptied,
\* the file counts as not loaded, and the value of one next(self) is
\* returned (None when it signals exhaustion)
ReloadIn(f) ==
    TheOne({TheOne({[f |-> Stored(f1, "default", r), kind |-> r.kind,
                     entry |-> r.entry, last |-> r.s.last]
                    : r \in {NextIteratorMatchIn(f1, "default", "none")}})
            : f1 \in {[f EXCEPT !.cache = <<>>, !.loaded = FALSE]}})

\* regular expressions passed to filter_message
Patterns == {"Accepted", "last"}

\* message_regexp.match(x.message)
Matches(pat, entry) == entry.message # <<>> /\ entry.message[1] = pat

\* [x for x in self if ...]: iterating the LogFile is next(self) until it
\* signals exhaustion.  A scan that fills the cache to MaxCache is left
\* unfinished.
RECURSIVE Scan(_, _, _)
Scan(f, pat, acc) ==
    IF Len(f.cache) >= MaxCache
    THEN [f |-> f, kind |-> "unfinished", found |-> acc]
    ELSE TheOne({
           IF r.kind = "entry"
           THEN TheOne({Scan(f1, pat, acc1) :
                          f1 \in {Stored(f, "default", r)},
                          acc1 \in {IF Matches(pat, r.entry)
                                    THEN Append(acc, r.entry.lineno)
                                    ELSE acc}})
           ELSE [f |-> Stored(f, "default", r),
                 kind |-> IF r.kind = "stop" THEN "done" ELSE "error",
                 found |-> acc]
           : r \in {NextIteratorMatchIn(f, "default", "none")}})

\* LogFile.filter_message(pat); filter_host, filter_program and
\* match_message differ in the test applied to each entry only
FilterIn(f, pat) ==
    IF Len(f.cache) = 0
    THEN TheOne({IF rl.kind = "error"
                 THEN [f |-> rl.f, kind |-> "error", found |-> <<>>]
                 ELSE Scan(rl.f, pat, <<>>)
                 : rl \in {ReloadIn(f)}})
    ELSE Scan(f, pat, <<>>)

SetLogFile(f) ==
    /\ cache' = f.cache
    /\ iterators' = f.iterators
    /\ off' = f.off
    /\ loaded' = f.loaded
    /\ fd' = f.fd
    /\ mtime' = f.mtime
    /\ opens' = f.opens

\* LogFile.reload()
Reload ==
    /\ \E r \in {ReloadIn(LogFileState)} :
          /\ SetLogFile(r.f)
          /\ res' = [Outcome("reload", "default", "none", r.kind) EXCEPT
                        !.entry = r.entry, !.last = r.last]
    /\ got' = [n \in Names |-> NoGot]
    /\ UNCHANGED <<fileLines, isStream, fileYear, clockYear, tailVars, collVars,
                   srcVars>>

\* LogFile.filter_message(pat)
Filter(pat) ==
    /\ Len(cache) < MaxCache
    /\ \E r \in {FilterIn(LogFileState, pat)} :
          /\ SetLogFile(r.f)
          /\ res' = [Outcome("filter", pat, "none", r.kind) EXCEPT
                        !.found = r.found]
    /\ got' = [n \in Names |-> NoGot]
    /\ UNCHANGED <<fileLines, isStream, fileYear, clockYear, tailVars, collVars,
                   srcVars>>

\* the operations on cursors, with the callbacks that matter to reload,
\* the filters and a growing file: none, and one that rejects every entry
\* (which reads the file to its end in one call)
NextCursor ==
    \/ \E name \in Names : RegisterIterator(name)
    \/ AssignHandle
    \/ \E name \in Names, cb \in {"none", "never"} : Advance(name, cb)

NextBulk ==
    \/ NextCursor
    \/ Reload
    \/ \E pat \in Patterns : Filter(pat)

\* ---- the file grows ----

\* A writer appends a line to the file.  The record of the step keeps the
\* name of the cursor whose exhaustion signal came just before.
Grow(id) ==
    /\ Len(fileLines) < MaxLines
    /\ fileLines' = Append(fileLines, id)
    /\ res' = IF res.op = "grow" THEN res
              ELSE IF res.op = "advance" /\ res.kind = "stop"
              THEN Outcome("grow", res.name, "none", "stop")
              ELSE Outcome("grow", "", "none", "ok")
    /\ UNCHANGED <<isStream, fileYear, clockYear, cache, iterators, loaded,
                   fd, off, mtime, got, opens, tailVars, collVars,
                   srcVars>>

NextGrow ==
    \/ NextCursor
    \/ \E id \in FileLineIds : Grow(id)


-----------------------------------------------------------------------------
(* TailReader: follows one path.  The file system changes under it: every  *)
(* system call of readline and load is a step of its own, and the writer's *)
(* steps interleave with them.  Sizes and offsets count lines.  A read of  *)
(* an open handle is taken to succeed.                                     *)

TailLineIds == {1, 4}       \* lines the writer appends (4 does not parse)

NoHandle == [ino |-> 0, off |-> 0]

\* st_mtime year of a file
MtimeYear(ino) == 2023 + ino

\* LogfileTailReader.__format_line__ applied to line.rstrip(); ok = FALSE
\* stands for an exception of the formatter.  (TailReader.__format_line__
\* returns the line and never fails: a run whose lines all parse.)
FormatLine(lineno, rawline, year) ==
    LET e == LogEntry(lineno, RStrip(rawline), year) IN
    [ok |-> e.ok, value |-> e.entry]

\* self.__format_line__ as readline calls it: while no load has set
\* self.year, LogfileTailReader.__format_line__ raises AttributeError
FormatWith(r, lineno, rawline) ==
    IF r.tyear = 0 THEN [ok |-> FALSE, value |-> NoEntry]
    ELSE FormatLine(lineno, rawline, r.tyear)

NoHist == [missedRot |-> FALSE,   \* an identity check ran while the path
                                  \* named another file than the handle's
                                  \* and did not close the handle
           missedTrunc |-> FALSE, \* a size check ran while the file was
                                  \* shorter than the handle's offset and
                                  \* did not reopen
           skipped |-> FALSE,     \* the formatter failed on a line (call)
           waited |-> FALSE,      \* load waited for the path (call)
           given |-> FALSE,       \* the constructor was given a handle
           inSeek |-> FALSE,      \* load was called by seek_to_end
           sought |-> FALSE,      \* seek_to_end was called
           seekOld |-> 0]         \* length of the file at the path when
                                  \* seek_to_end was last called

NoResult == [kind |-> "none", ino |-> 0, idx |-> 0, id |-> 0,
             value |-> NoEntry,
             missedRot |-> FALSE, missedTrunc |-> FALSE, first |-> FALSE]

InitTail ==
    /\ inodes = [i \in 1..MaxInodes |-> <<>>]
    /\ pathIno = 0
    /\ nextIno = 1
    /\ readable = TRUE
    /\ tfd = NoHandle
    /\ tstat = 0
    /\ tpos = 0
    /\ tyear = 0
    /\ pc = "idle"
    /\ tres = NoResult
    /\ hist = NoHist

\* ---- the writer and the file system ----

Create ==
    /\ pathIno = 0
    /\ nextIno <= MaxInodes
    /\ pathIno' = nextIno
    /\ nextIno' = nextIno + 1
    /\ UNCHANGED <<inodes, readable, rdVars, logVars, collVars, srcVars>>

\* unlink: the file's content lives on while the reader holds it open
Delete ==
    /\ pathIno # 0
    /\ pathIno' = 0
    /\ inodes' = IF tfd.ino = pathIno THEN inodes
                 ELSE [inodes EXCEPT ![pathIno] = <<>>]
    /\ UNCHANGED <<nextIno, readable, rdVars, logVars, collVars, srcVars>>

AppendLine(id) ==
    /\ pathIno # 0
    /\ Len(inodes[pathIno]) < MaxTail
    /\ inodes' = [inodes EXCEPT ![pathIno] = Append(@, id)]
    /\ UNCHANGED <<pathIno, nextIno, readable, rdVars, logVars, collVars, srcVars>>

Truncate(k) ==
    /\ pathIno # 0
    /\ k < Len(inodes[pathIno])
    /\ inodes' = [inodes EXCEPT ![pathIno] = SubSeq(@, 1, k)]
    /\ UNCHANGED <<pathIno, nextIno, readable, rdVars, logVars, collVars, srcVars>>

Chmod ==
    /\ pathIno # 0
    /\ readable' = ~readable
    /\ UNCHANGED <<inodes, pathIno, nextIno, rdVars, logVars, collVars, srcVars>>

\* ---- the reader ----

\* TailReader.close
Close(r) == [r EXCEPT !.tfd = NoHandle, !.tstat = 0]

\* TailReader.__init__ with an open file given as fd: the handle is kept,
\* no snapshot is taken and self.year is not set
GivenHandle ==
    /\ pc = "idle" /\ tres.kind = "none"
    /\ tfd = NoHandle /\ tyear = 0 /\ ~hist.sought
    /\ pathIno # 0 /\ readable
    /\ tfd' = [ino |-> pathIno, off |-> 0]
    /\ hist' = [hist EXCEPT !.given = TRUE]
    /\ UNCHANGED <<fsVars, tstat, tpos, tyear, pc, tres, logVars, collVars, srcVars>>

\* The file system once the reader's handle is closed: the content of an
\* unlinked file goes with its last open handle.
Released ==
    /\ inodes' = IF tfd.ino # 0 /\ tfd.ino # pathIno
                 THEN [inodes EXCEPT ![tfd.ino] = <<>>] ELSE inodes
    /\ UNCHANGED <<pathIno, nextIno, readable>>

Reader == [tfd |-> tfd, tstat |-> tstat, tpos |-> tpos, tyear |-> tyear]

SetReader(r) ==
    /\ tfd' = r.tfd
    /\ tstat' = r.tstat
    /\ tpos' = r.tpos
    /\ tyear' = r.tyear

\* a caller enters readline
CallReadline ==
    /\ pc = "idle"
    /\ pc' = "check_ino"
    /\ tres' = [NoResult EXCEPT !.kind = "pending"]
    /\ hist' = [hist EXCEPT !.skipped = FALSE, !.waited = FALSE]
    /\ UNCHANGED <<fsVars, tfd, tstat, tpos, tyear, logVars, collVars, srcVars>>

\* readline, lines 107-108 with the handlers of 114-117
CheckIno ==
    /\ pc = "check_ino"
    /\ IF tstat # 0 /\ (pathIno = 0 \/ pathIno # tstat)
       THEN /\ SetReader(Close(Reader))
            /\ Released
            /\ pc' = "check_fd"
            /\ UNCHANGED hist
       ELSE /\ UNCHANGED <<fsVars, tfd, tstat, tpos, tyear>>
            /\ pc' = "check_size"
            /\ hist' = [hist EXCEPT
                           !.missedRot = @ \/ (tfd.ino # 0 /\ pathIno # 0
                                               /\ pathIno # tfd.ino)]
    /\ UNCHANGED <<tres, logVars, collVars, srcVars>>

\* Faulty variant: the file is reopened when the offset has reached its size
CheckSizeAtEnd ==
    /\ pc = "check_size"
    /\ IF tfd.ino # 0 /\ tpos > 0
       THEN IF pathIno = 0
            THEN /\ SetReader(Close(Reader))
                 /\ Released
                 /\ pc' = "check_fd"
                 /\ UNCHANGED hist
            ELSE IF tpos >= Len(inodes[pathIno])
            THEN /\ UNCHANGED <<fsVars, tfd, tstat, tpos, tyear>>
                 /\ pc' = "load_begin"
                 /\ UNCHANGED hist
            ELSE /\ UNCHANGED <<fsVars, tfd, tstat, tpos, tyear>>
                 /\ pc' = "check_fd"
                 /\ hist' = [hist EXCEPT !.missedTrunc =
                                @ \/ (pathIno = tfd.ino
                                      /\ Len(inodes[pathIno]) < tfd.off)]
       ELSE /\ UNCHANGED <<fsVars, tfd, tstat, tpos, tyear>>
            /\ pc' = "check_fd"
            /\ hist' = [hist EXCEPT !.missedTrunc =
                           @ \/ (tfd.ino # 0 /\ pathIno = tfd.ino
                                 /\ Len(inodes[pathIno]) < tfd.off)]
    /\ UNCHANGED <<tres, logVars, collVars, srcVars>>

\* readline, lines 110-112 with the handlers of 114-117
CheckSize ==
    /\ pc = "check_size"
    /\ IF tfd.ino # 0 /\ tpos > 0
       THEN IF pathIno = 0
            THEN /\ SetReader(Close(Reader))
                 /\ Released
                 /\ pc' = "check_fd"
                 /\ UNCHANGED hist
            ELSE IF tpos > Len(inodes[pathIno])
            THEN /\ UNCHANGED <<fsVars, tfd, tstat, tpos, tyear>>
                 /\ pc' = "load_begin"
                 /\ UNCHANGED hist
            ELSE /\ UNCHANGED <<fsVars, tfd, tstat, tpos, tyear>>
                 /\ pc' = "check_fd"
                 /\ hist' = [hist EXCEPT !.missedTrunc =
                                @ \/ (pathIno = tfd.ino
                                      /\ Len(inodes[pathIno]) < tfd.off)]
       ELSE /\ UNCHANGED <<fsVars, tfd, tstat, tpos, tyear>>
            /\ pc' = "check_fd"
            /\ hist' = [hist EXCEPT !.missedTrunc =
                           @ \/ (tfd.ino # 0 /\ pathIno = tfd.ino
                                 /\ Len(inodes[pathIno]) < tfd.off)]
    /\ UNCHANGED <<tres, logVars, collVars, srcVars>>

\* readline, lines 119-122
CheckFd ==
    /\ pc = "check_fd"
    /\ pc' = IF tfd.ino = 0 THEN "load_begin" ELSE "read"
    /\ UNCHANGED <<fsVars, tfd, tstat, tpos, tyear, tres, hist, logVars, collVars,
                   srcVars>>

\* Faulty variant: load gives up when the path is missing: readline returns
LoadBeginNoWait ==
    /\ pc = "load_begin"
    /\ IF pathIno # 0 /\ readable
       THEN /\ SetReader(Close(Reader))
            /\ pc' = "load_open"
       ELSE /\ SetReader([Close(Reader) EXCEPT !.tpos = 0])
            /\ pc' = "idle"
    /\ Released
    /\ hist' = [hist EXCEPT !.missedRot = FALSE, !.missedTrunc = FALSE]
    /\ UNCHANGED <<tres, logVars, collVars, srcVars>>

\* load, lines 59-62 and 77-80
LoadBegin ==
    /\ pc = "load_begin"
    /\ IF pathIno # 0 /\ readable
       THEN /\ SetReader(Close(Reader))
            /\ pc' = "load_open"
       ELSE /\ SetReader([Close(Reader) EXCEPT !.tpos = 0])
            /\ pc' = "load_sleep"
    /\ Released
    /\ hist' = [hist EXCEPT !.missedRot = FALSE, !.missedTrunc = FALSE]
    /\ UNCHANGED <<tres, logVars, collVars, srcVars>>

\* Faulty variant: a failed open is retried at once
LoadOpenNoWait ==
    /\ pc = "load_open"
    /\ IF pathIno # 0 /\ readable
       THEN /\ tfd' = [ino |-> pathIno, off |-> 0]
            /\ pc' = "load_stat"
       ELSE /\ UNCHANGED tfd
            /\ pc' = "load_begin"
    /\ UNCHANGED <<fsVars, tstat, tpos, tyear, tres, hist, logVars, collVars,
                   srcVars>>

\* load, line 65 (an IOError is passed over, lines 72-73)
LoadOpen ==
    /\ pc = "load_open"
    /\ IF pathIno # 0 /\ readable
       THEN /\ tfd' = [ino |-> pathIno, off |-> 0]
            /\ pc' = "load_stat"
       ELSE /\ UNCHANGED tfd
            /\ pc' = "load_sleep"
    /\ UNCHANGED <<fsVars, tstat, tpos, tyear, tres, hist, logVars, collVars,
                   srcVars>>

\* load, lines 66-70 (an OSError is passed over, lines 74-75)
LoadStat ==
    /\ pc = "load_stat"
    /\ IF pathIno # 0
       THEN /\ tstat' = pathIno
            /\ tfd' = [tfd EXCEPT !.off = 0]
            /\ tpos' = 0
            /\ tyear' = MtimeYear(pathIno)
            /\ pc' = IF hist.inSeek THEN "seek_stat" ELSE "read"
       ELSE /\ UNCHANGED <<tfd, tstat, tpos, tyear>>
            /\ pc' = "load_sleep"
    /\ UNCHANGED <<fsVars, tres, hist, logVars, collVars, srcVars>>

\* load, line 82: time.sleep(OPEN_RETRY_INTERVAL)
LoadSleep ==
    /\ pc = "load_sleep"
    /\ pc' = "load_begin"
    /\ hist' = [hist EXCEPT !.waited = TRUE]
    /\ UNCHANGED <<fsVars, tfd, tstat, tpos, tyear, tres, logVars, collVars,
                   srcVars>>

\* Faulty variant: a failure of the formatter ends the call
ReadRaise ==
    /\ pc = "read"
    /\ LET content == inodes[tfd.ino] IN
       IF tfd.off < Len(content)
       THEN LET idx == tfd.off + 1
                f   == FormatWith(Reader, idx, RawLine(content[idx]))
            IN  /\ tfd' = [tfd EXCEPT !.off = idx]
                /\ pc' = "idle"
                /\ tres' = [kind |-> IF f.ok THEN "line" ELSE "error",
                            ino |-> tfd.ino,
                            idx |-> idx, id |-> content[idx],
                            value |-> f.value,
                            missedRot |-> hist.missedRot,
                            missedTrunc |-> hist.missedTrunc,
                            first |-> tfd.off = 0]
                /\ UNCHANGED <<tpos, hist>>
       ELSE /\ pc' = "sleep"
            /\ tpos' = tfd.off
            /\ UNCHANGED <<tfd, tres, hist>>
    /\ UNCHANGED <<fsVars, tstat, tyear, logVars, collVars, srcVars>>

\* readline, lines 122-144: read one line, return it or record the offset
Read ==
    /\ pc = "read"
    /\ LET content == inodes[tfd.ino] IN
       IF tfd.off < Len(content)
       THEN LET idx == tfd.off + 1
                f   == FormatWith(Reader, idx, RawLine(content[idx]))
            IN  /\ tfd' = [tfd EXCEPT !.off = idx]
                /\ IF f.ok
                   THEN /\ pc' = "idle"
                        /\ tres' = [kind |-> "line", ino |-> tfd.ino,
                                    idx |-> idx, id |-> content[idx],
                                    value |-> f.value,
                                    missedRot |-> hist.missedRot,
                                    missedTrunc |-> hist.missedTrunc,
                                    first |-> tfd.off = 0]
                        /\ UNCHANGED <<tpos, hist>>
                   ELSE /\ pc' = "sleep"
                        /\ tpos' = idx
                        /\ hist' = [hist EXCEPT !.skipped = TRUE]
                        /\ UNCHANGED tres
       ELSE /\ pc' = "sleep"
            /\ tpos' = tfd.off
            /\ UNCHANGED <<tfd, tres, hist>>
    /\ UNCHANGED <<fsVars, tstat, tyear, logVars, collVars, srcVars>>

\* readline, line 146: time.sleep(INTERVAL)
Sleep ==
    /\ pc = "sleep"
    /\ pc' = "check_ino"
    /\ UNCHANGED <<fsVars, tfd, tstat, tpos, tyear, tres, hist, logVars, collVars,
                   srcVars>>

\* a caller enters seek_to_end (line 91)
CallSeekToEnd ==
    /\ pc = "idle"
    /\ pc' = IF tfd.ino = 0 THEN "load_begin" ELSE "seek_stat"
    /\ tres' = [NoResult EXCEPT !.kind = "pending"]
    /\ hist' = [hist EXCEPT !.skipped = FALSE, !.waited = FALSE,
                            !.inSeek = TRUE, !.sought = TRUE,
                            !.seekOld = IF pathIno = 0 THEN 0
                                        ELSE Len(inodes[pathIno])]
    /\ UNCHANGED <<fsVars, tfd, tstat, tpos, tyear, logVars, collVars, srcVars>>

\* Faulty variant: seek_to_end leaves the handle at the start of the file
SeekStatNot ==
    /\ pc = "seek_stat"
    /\ IF pathIno # 0
       THEN /\ tfd' = [tfd EXCEPT !.off = 0]
            /\ tres' = [NoResult EXCEPT !.kind = "sought"]
       ELSE /\ UNCHANGED tfd
            /\ tres' = [NoResult EXCEPT !.kind = "error"]
    /\ pc' = "idle"
    /\ hist' = [hist EXCEPT !.inSeek = FALSE]
    /\ UNCHANGED <<fsVars, tstat, tpos, tyear, logVars, collVars, srcVars>>

\* seek_to_end, line 93: self.fd.seek(os.stat(self.path).st_size); an
\* OSError of os.stat goes to the caller
SeekStat ==
    /\ pc = "seek_stat"
    /\ IF pathIno # 0
       THEN /\ tfd' = [tfd EXCEPT !.off = Len(inodes[pathIno])]
            /\ tres' = [NoResult EXCEPT !.kind = "sought"]
       ELSE /\ UNCHANGED tfd
            /\ tres' = [NoResult EXCEPT !.kind = "error"]
    /\ pc' = "idle"
    /\ hist' = [hist EXCEPT !.inSeek = FALSE]
    /\ UNCHANGED <<fsVars, tstat, tpos, tyear, logVars, collVars, srcVars>>

\* the steps of readline and load around the read
PollStep ==
    \/ CallReadline
    \/ CheckIno
    \/ CheckSize
    \/ CheckFd
    \/ LoadBegin
    \/ LoadOpen
    \/ LoadStat
    \/ LoadSleep
    \/ Sleep

ReaderStep == PollStep \/ Read

\* what a step of Read does to the reader's position: it returns to the
\* caller or goes to the wait
ReadMoves == pc = "read" /\ pc' \in {"idle", "sleep"}

WriterStep ==
    \/ Create
    \/ Delete
    \/ \E id \in TailLineIds : AppendLine(id)
    \/ \E k \in 0..MaxTail : Truncate(k)
    \/ Chmod

NextTail == ReaderStep \/ WriterStep

\* The reader as its callers set it up (given a handle or not, sought to
\* the end or not) following a file that only grows by appended lines.
NextFollow ==
    \/ ReaderStep
    \/ GivenHandle
    \/ CallSeekToEnd
    \/ SeekStat
    \/ Create
    \/ \E id \in TailLineIds : AppendLine(id)

-----------------------------------------------------------------------------
(* LogFileCollection: many files as one stream.  A path is a number; the   *)
(* order of the numbers is the lexical order of the path strings.          *)

Paths == 1..MaxFiles

\* st_mtime values, in tenths of a second
Mtimes == {10, 15, 20}

\* int(st.st_mtime)
WholeSeconds(t) == t \div 10

\* the sequences without repetition over the set S
RECURSIVE Arrangements(_)
Arrangements(S) ==
    {<<>>} \cup UNION {{<<x>> \o q : q \in Arrangements(S \ {x})} : x \in S}

\* Faulty variant: the paths of one second are left in input order
SortPathsNot(q) == q

\* list.sort() of a list of paths
RECURSIVE SortPaths(_)
SortPaths(q) ==
    IF q = <<>> THEN <<>>
    ELSE LET rest == SortPaths(Tail(q))
             x    == Head(q)
             k    == Cardinality({i \in 1..Len(rest) : rest[i] < x})
         IN  SubSeq(rest, 1, k) \o <<x>> \o SubSeq(rest, k + 1, Len(rest))

\* sorted(stats.keys())
RECURSIVE SortedKeys(_)
SortedKeys(S) ==
    IF S = {} THEN <<>>
    ELSE LET m == CHOOSE x \in S : \A y \in S : x <= y IN
         <<m>> \o SortedKeys(S \ {m})

\* stats[ts] as the first loop of the constructor leaves it: the paths of
\* that whole second, in input order
StatsGroup(input, mt, ts) ==
    LET InGroup(p) == WholeSeconds(mt[p]) = ts IN SelectSeq(input, InGroup)

RECURSIVE Flatten(_, _, _)
Flatten(keys, input, mt) ==
    IF keys = <<>> THEN <<>>
    ELSE SortPaths(StatsGroup(input, mt, Head(keys)))
            \o Flatten(Tail(keys), input, mt)

\* the order of self.logfiles the constructor builds from the path list
CollectionOrder(input, mt) ==
    Flatten(SortedKeys({WholeSeconds(mt[input[i]]) : i \in 1..Len(input)}),
            input, mt)

\* LogFile(path): the fields of a new LogFile on the file at path p
NewLogFile(p) ==
    [cache |-> <<>>, iterators |-> [n \in {"default"} |-> None], off |-> 0,
     loaded |-> FALSE, fd |-> "None", mtime |-> 0, opens |-> 0,
     lines |-> collLines[p], stream |-> FALSE, fyear |-> 2024,
     cyear |-> 2025]

\* cur: the entries, each as <<path, line>>, yielded since the last
\* no-more-input signal, and curOk: no call since then raised an error;
\* prev, prevOk: the same of the iteration before it; passes: the signals
\* so far, counted up to 2
NoCollRes == [op |-> "init", kind |-> "ok", path |-> 0, lineno |-> 0,
              n |-> 0, inOrder |-> TRUE,
              cur |-> <<>>, curOk |-> TRUE, prev |-> <<>>, prevOk |-> TRUE,
              passes |-> 0]

\* no collection is in use
NoCollection ==
    /\ collInput = <<>>
    /\ collMtime = [p \in Paths |-> 10]
    /\ collLines = [p \in Paths |-> <<>>]
    /\ logfiles = <<>>
    /\ iterIndex = None
    /\ collRes = NoCollRes

\* the files a collection is built on
InitColl ==
    /\ collInput \in Arrangements(Paths)
    /\ collMtime \in [Paths -> Mtimes]
    /\ collLines \in [Paths -> {<<>>, <<1>>}]
    /\ logfiles = <<>>
    /\ iterIndex = None
    /\ collRes = NoCollRes

\* LogFileCollection.__init__(logfiles)
Construct ==
    /\ collRes.op = "init"
    /\ logfiles' = LET order == CollectionOrder(collInput, collMtime) IN
                   [i \in 1..Len(order) |->
                       [path |-> order[i], f |-> NewLogFile(order[i])]]
    /\ iterIndex' = None
    /\ collRes' = [NoCollRes EXCEPT !.op = "construct"]
    /\ UNCHANGED <<collInput, collMtime, collLines, logVars, tailVars, srcVars>>

\* The caller assigns a handle to the fd attribute of self.logfiles[i]
CollAssign(i) ==
    /\ i \in 1..Len(logfiles)
    /\ logfiles[i].f.fd = "None"
    /\ logfiles' = [logfiles EXCEPT ![i].f.fd = "caller"]
    /\ collRes' = [collRes EXCEPT !.op = "assign"]
    /\ UNCHANGED <<collInput, collMtime, collLines, iterIndex, logVars,
                   tailVars, srcVars>>

\* The entries of all files in the order of self.logfiles, each as
\* <<path, line>>
RECURSIVE AllEntries(_)
AllEntries(k) ==
    IF k > Len(logfiles) THEN <<>>
    ELSE LET lines == EntryLinesOf(collLines[logfiles[k].path], 1, FALSE) IN
         [i \in 1..Len(lines) |-> <<logfiles[k].path, lines[i]>>]
            \o AllEntries(k + 1)

\* next(self.__iter_entry) on file k (counted from 1) of the list fs
NextOfFile(fs, k) ==
    TheOne({[fs |-> [fs EXCEPT ![k].f = Stored(fs[k].f, "default", r)],
             kind |-> r.kind, path |-> fs[k].path,
             lineno |-> r.entry.lineno]
            : r \in {NextIteratorMatchIn(fs[k].f, "default", "none")}})

\* LogFileCollection.next as a value: the files, the index and the outcome
CollectionNext ==
    IF logfiles = <<>>
    THEN [fs |-> logfiles, index |-> iterIndex, kind |-> "stop",
          path |-> 0, lineno |-> 0]
    ELSE LET index == IF iterIndex = None THEN 0 ELSE iterIndex IN
         TheOne({
            IF r1.kind # "stop"
            THEN [fs |-> r1.fs, index |-> index, kind |-> r1.kind,
                  path |-> r1.path, lineno |-> r1.lineno]
            ELSE IF index < Len(logfiles) - 1
            THEN TheOne({
                    [fs |-> r2.fs,
                     index |-> IF r2.kind = "stop" THEN None ELSE index + 1,
                     kind |-> r2.kind, path |-> r2.path,
                     lineno |-> r2.lineno]
                    : r2 \in {NextOfFile(r1.fs, index + 2)}})
            ELSE [fs |-> r1.fs, index |-> None, kind |-> "stop",
                  path |-> 0, lineno |-> 0]
            : r1 \in {NextOfFile(logfiles, index + 1)}})

\* LogFileCollection.next()
CollNext ==
    /\ collRes.op # "init"
    /\ \A k \in 1..Len(logfiles) : Len(logfiles[k].f.cache) < MaxCache
    /\ \E r \in {CollectionNext} :
          /\ logfiles' = r.fs
          /\ iterIndex' = r.index
          /\ collRes' =
                LET n0  == IF collRes.kind = "stop" THEN 0 ELSE collRes.n
                    ok0 == collRes.kind = "stop" \/ collRes.inOrder
                    all == AllEntries(1)
                    cur0 == IF collRes.kind = "stop" THEN <<>>
                            ELSE collRes.cur
                IN  [op |-> "next", kind |-> r.kind, path |-> r.path,
                     lineno |-> r.lineno,
                     n |-> IF r.kind = "entry" THEN n0 + 1 ELSE n0,
                     inOrder |-> IF r.kind # "entry" THEN ok0
                                 ELSE /\ ok0 /\ n0 < Len(all)
                                      /\ all[n0 + 1] = <<r.path, r.lineno>>,
                     cur |-> IF r.kind = "entry"
                             THEN Append(cur0, <<r.path, r.lineno>>)
                             ELSE cur0,
                     curOk |-> /\ collRes.kind = "stop" \/ collRes.curOk
                               /\ r.kind # "error",
                     prev |-> IF collRes.kind = "stop" THEN collRes.cur
                              ELSE collRes.prev,
                     prevOk |-> IF collRes.kind = "stop" THEN collRes.curOk
                                ELSE collRes.prevOk,
                     passes |-> IF r.kind = "stop" /\ collRes.passes < 2
                                THEN collRes.passes + 1
                                ELSE collRes.passes]
    /\ UNCHANGED <<collInput, collMtime, collLines, logVars, tailVars, srcVars>>

NextColl ==
    \/ Construct
    \/ \E i \in Paths : CollAssign(i)
    \/ CollNext

\* Before iterating, the caller reads self.logfiles[i] to its end:
\* next_iterator_match('default', callback) with a callback that accepts
\* no entry
CollLoad(i) ==
    /\ collRes.kind = "ok"
    /\ i \in 1..Len(logfiles)
    /\ Len(logfiles[i].f.cache) < MaxCache
    /\ \E r \in {NextIteratorMatchIn(logfiles[i].f, "default", "never")} :
          logfiles' = [logfiles EXCEPT ![i].f = Stored(@, "default", r)]
    /\ collRes' = [collRes EXCEPT !.op = "load"]
    /\ UNCHANGED <<collInput, collMtime, collLines, iterIndex, logVars,
                   tailVars, srcVars>>

\* the collection iterated again and again, over files read before or not
NextPasses ==
    \/ NextColl
    \/ \E i \in Paths : CollLoad(i)

-----------------------------------------------------------------------------
(* LogEntry: the source of a line matched against SOURCE_FORMATS.  The     *)
(* source is a sequence of lexemes; a number, a name and each punctuation  *)
(* mark or blank is one lexeme.                                            *)

Numerals == {"13", "6", "1234"}      \* the lexemes \d+ matches

\* \d+ matches the whole of s
IsDigits(s) == s # <<>> /\ \A i \in 1..Len(s) : s[i] \in Numerals

\* Index of the first lexeme x of s at or after i, 0 when there is none.
RECURSIVE IndexOf(_, _, _)
IndexOf(s, x, i) ==
    IF i > Len(s) THEN 0 ELSE IF s[i] = x THEN i ELSE IndexOf(s, x, i + 1)

\* Length of the longest prefix of s that is whitespace.
RECURSIVE SpaceRun(_)
SpaceRun(s) ==
    IF s = <<>> \/ ~IsSpace(Head(s)) THEN 0 ELSE 1 + SpaceRun(Tail(s))

\* the attributes LogEntry.__init__ sets to None before matching, and
\* facility and level, which it does not set at all
NoFields == [fmt |-> 0, version |-> Absent, facility |-> Absent,
             level |-> Absent, host |-> Absent, program |-> Absent,
             pid |-> Absent]

NoMatch == [ok |-> FALSE, fields |-> NoFields]

\* (?P<program>[^\[]+)\[(?P<pid>\d+)\]$  or  (?P<program>[^\[]+)$  on t
ProgramPid(t, withPid) ==
    LET b == IndexOf(t, "[", 1) IN
    IF withPid
    THEN IF /\ b > 1 /\ Len(t) >= b + 2 /\ t[Len(t)] = "]"
            /\ IsDigits(SubSeq(t, b + 1, Len(t) - 1))
         THEN [ok |-> TRUE,
               fields |-> [NoFields EXCEPT
                              !.program = SubSeq(t, 1, b - 1),
                              !.pid = SubSeq(t, b + 1, Len(t) - 1)]]
         ELSE NoMatch
    ELSE IF b = 0 /\ t # <<>>
         THEN [ok |-> TRUE, fields |-> [NoFields EXCEPT !.program = t]]
         ELSE NoMatch

\* (?P<host>[^\s]+)\s+(?P<program>...) on s: the host is the run without
\* whitespace s begins with; \s+ takes as many of the blanks after it as
\* leave a match for the rest (the program may begin with a blank)
HostProgram(s, withPid) ==
    LET h    == TokenLen(s)
        rest == SubSeq(s, h + 1, Len(s))
        w    == SpaceRun(rest)
        fits == {q \in 1..w :
                   ProgramPid(SubSeq(rest, q + 1, Len(rest)), withPid).ok}
    IN  IF h = 0 \/ fits = {} THEN NoMatch
        ELSE LET q == CHOOSE x \in fits : \A y \in fits : y <= x
                 m == ProgramPid(SubSeq(rest, q + 1, Len(rest)), withPid)
             IN  [ok |-> TRUE,
                  fields |-> [m.fields EXCEPT !.host = SubSeq(s, 1, h)]]

\* ^<...>\s+ followed by host and program: the text between "<" and the
\* first ">" (kind "version": [^>]+, kind "facility": \d+\.\d+)
Envelope(s, kind, withPid) ==
    LET j == IndexOf(s, ">", 2) IN
    IF s = <<>> \/ s[1] # "<" \/ j < 3 THEN NoMatch
    ELSE LET inner == SubSeq(s, 2, j - 1)
             after == SubSeq(s, j + 1, Len(s))
             w     == SpaceRun(after)
             m     == HostProgram(SubSeq(after, w + 1, Len(after)), withPid)
         IN  IF w = 0 \/ ~m.ok THEN NoMatch
             ELSE IF kind = "version"
             THEN [ok |-> TRUE,
                   fields |-> [m.fields EXCEPT !.version = inner]]
             ELSE LET d == IndexOf(inner, ".", 1) IN
                  IF /\ d > 1
                     /\ IsDigits(SubSeq(inner, 1, d - 1))
                     /\ IsDigits(SubSeq(inner, d + 1, Len(inner)))
                  THEN [ok |-> TRUE,
                        fields |-> [m.fields EXCEPT
                                       !.facility = SubSeq(inner, 1, d - 1),
                                       !.level = SubSeq(inner, d + 1,
                                                        Len(inner))]]
                  ELSE NoMatch

\* SOURCE_FORMATS[k - 1].match(s), in the order of the list
SourceFormat(k, s) ==
    IF k = 1 THEN Envelope(s, "version", TRUE)
    ELSE IF k = 2 THEN Envelope(s, "version", FALSE)
    ELSE IF k = 3 THEN Envelope(s, "facility", TRUE)
    ELSE IF k = 4 THEN Envelope(s, "facility", FALSE)
    ELSE IF k = 5 THEN HostProgram(s, TRUE)
    ELSE HostProgram(s, FALSE)

SourceFormats == 1..6

\* The loop of LogEntry.__init__ over source_formats: the groups of the
\* first pattern that matches are set, fmt is its place in the list
SourceFields(s) ==
    LET hits == {k \in SourceFormats : SourceFormat(k, s).ok} IN
    IF hits = {} THEN NoFields
    ELSE LET k == CHOOSE x \in hits : \A y \in hits : x <= y IN
         [SourceFormat(k, s).fields EXCEPT !.fmt = k]

\* runs of blanks
Blanks == {[i \in 1..n |-> " "] : n \in 1..MaxBlanks}

\* the sources that are parsed: an envelope or none, a host, a program
\* and a pid or none, with blanks between them
Envelopes == {<<>>, <<"<", "v1", ">">>, <<"<", "13", ".", "6", ">">>,
              <<"<", "13", ".", "x", ">">>}
Hosts == {<<"host1">>, <<"host2">>}
Programs == {<<"sshd">>, <<"su">>}
Pids == {<<>>, <<"[", "1234", "]">>, <<"[", "x", "]">>}

Sources ==
    {(IF e = <<>> THEN <<>> ELSE e \o b1) \o h \o b2 \o p \o i :
        e \in Envelopes, b1 \in Blanks, h \in Hosts, b2 \in Blanks,
        p \in Programs, i \in Pids}

Unparsed == [done |-> FALSE, f |-> NoFields]

NoSource == source = <<>> /\ fields = Unparsed

InitSource == source \in Sources /\ fields = Unparsed

\* LogEntry.__init__, lines 370-377, on the source of a line
ParseSource ==
    /\ ~fields.done
    /\ fields' = [done |-> TRUE, f |-> SourceFields(source)]
    /\ UNCHANGED <<source, logVars, tailVars, collVars>>

-----------------------------------------------------------------------------
(* Specifications *)

\* the file iterator alone, over every file of the bounds
InitLogSpec == InitLog /\ InitTail /\ NoCollection /\ NoSource

SpecLog == InitLogSpec /\ [][NextLog]_vars

\* the file iterator with reload and the bulk filters
SpecBulk == InitLogSpec /\ [][NextBulk]_vars

\* the file iterator over a file that grows
SpecGrow == InitLogSpec /\ [][NextGrow]_vars

\* the tail reader and the writer of the followed file
InitTailSpec ==
    /\ fileLines = <<>> /\ isStream = FALSE
    /\ InitLog /\ InitTail /\ NoCollection /\ NoSource

SpecTail == InitTailSpec /\ [][NextTail]_vars

\* the tail reader following a file that only grows; the caller goes on
\* calling and the reader's steps are always taken in the end
SpecFollow ==
    InitTailSpec /\ [][NextFollow]_vars /\ WF_vars(PollStep) /\ WF_pc(ReadMoves)

\* the constructor of the collection, over every path list and every
\* modification time of the bounds
InitOrderSpec ==
    /\ fileLines = <<>> /\ isStream = FALSE
    /\ collLines = [p \in Paths |-> <<>>]
    /\ InitLog /\ InitTail /\ InitColl /\ NoSource

SpecOrder == InitOrderSpec /\ [][Construct]_vars

\* a collection iterated, over every content of its files, which were
\* all modified in the same second
InitCollSpec ==
    /\ fileLines = <<>> /\ isStream = FALSE
    /\ collInput = [i \in Paths |-> i]
    /\ collMtime = [p \in Paths |-> 10]
    /\ InitLog /\ InitTail /\ InitColl /\ NoSource

SpecColl == InitCollSpec /\ [][NextColl]_vars

\* the same collection, iterated more than once
SpecPasses == InitCollSpec /\ [][NextPasses]_vars

\* a program that advances either one LogFile or a collection
InitSteps == InitLogSpec \/ InitCollSpec

NextSteps ==
    \/ collInput = <<>> /\ NextLog
    \/ collInput # <<>> /\ NextPasses

SpecSteps == InitSteps /\ [][NextSteps]_vars

\* LogEntry's pattern loop applied to every source of the bounds
InitSourceSpec ==
    /\ fileLines = <<>> /\ isStream = FALSE
    /\ InitLog /\ InitTail /\ NoCollection /\ InitSource

SpecSource == InitSourceSpec /\ [][ParseSource]_vars

Init == InitLog /\ InitTail /\ NoCollection /\ NoSource

Next == NextLog \/ NextTail

Spec == Init /\ [][Next]_vars

-----------------------------------------------------------------------------
(* Claims about the file iterator (checked under SpecLog) *)

\* a step of Advance on a registered cursor
AdvanceStep == res'.op = "advance" /\ res'.name \in DOMAIN iterators
               /\ logVars' # logVars

FirstLineParses ==
    fileLines # <<>> /\ LogEntry(1, RawLine(fileLines[1]), 0).ok

\* C1: the first advance on a freshly constructed iterator over a
\* non-empty file whose first line parses opens the file by itself and
\* returns the file's first entry; it does not fail.
C1_FirstAdvanceOpens ==
    [][(/\ AdvanceStep
        /\ fd = "None" /\ cache = <<>> /\ ~loaded
        /\ FirstLineParses
        /\ res'.cb = "none")
       => (res'.kind = "entry" /\ res'.entry.lineno = 1)]_vars

\* C2: what a cursor is handed between two exhaustion signals, by advances
\* without a callback, is the file's entries in file order, each exactly
\* once: every entry handed out is the next one, and exhaustion is
\* signalled only after the last one.
C2_EachEntryOnceInOrder ==
    /\ \A n \in Names : got[n].pure => got[n].inOrder
    /\ (res.op = "advance" /\ res.kind = "stop" /\ res.seen.pure)
          => (res.seen.inOrder /\ res.seen.n = Len(EntryLines(1, FALSE)))

\* what the next advance of cursor b (no callback) would hand out on a
\* LogFile whose fields are f
NextOutcome(f, b) ==
    LET r == NextIteratorMatchIn(f, b, "none") IN
    [kind |-> r.kind, lineno |-> r.entry.lineno]

\* the fields of the LogFile after the step
LogFileStateAfter ==
    [cache |-> cache', iterators |-> iterators', off |-> off',
     loaded |-> loaded', fd |-> fd', mtime |-> mtime', opens |-> opens',
     lines |-> fileLines', stream |-> isStream', fyear |-> fileYear',
     cyear |-> clockYear']

\* C3: an advance on one cursor (that does not raise) never changes the
\* entry the next advance of another cursor returns.
C3_NextEntryIndependent ==
    [][(AdvanceStep /\ res'.kind # "error")
       => \A b \in DOMAIN iterators \ {res'.name} :
             \E before \in {NextOutcome(LogFileState, b)} :
                before.kind # "error"
                   => NextOutcome(LogFileStateAfter, b) = before]_vars

\* C4: an advance on one cursor, whatever its outcome, leaves the stored
\* position of every other registered cursor unchanged.
C4_OtherCursorsUntouched ==
    [][AdvanceStep
       => /\ DOMAIN iterators' = DOMAIN iterators
          /\ \A b \in DOMAIN iterators \ {res'.name} :
                iterators'[b] = iterators[b]]_vars

\* C4 witness: an advance signalled exhaustion, another one returned an
\* entry and one raised, each while another cursor held a position.
C4_Witness ==
    /\ res.op = "advance" /\ res.kind = "stop"
    /\ \E b \in DOMAIN iterators \ {res.name} : iterators[b] > 0

\* C5: without reload the file is opened once, no line is parsed twice:
\* the cache never holds two entries made from the same line.
C5_ParsedAtMostOnce ==
    /\ opens <= 1
    /\ \A i, j \in 1..Len(cache) :
          cache[i].lineno = cache[j].lineno => i = j

\* a line that neither parses nor can be a continuation line
Unparseable(id) ==
    /\ ~LogEntry(1, RawLine(id), 0).ok
    /\ RawLine(id)[1] \notin {" ", "\t"}

\* C10: an advance whose last line read does not parse raises to the
\* caller instead of going on to the next line, and the cache never holds
\* an entry made from such a line.
C10_BadLineRaises ==
    /\ (res.op = "advance" /\ res.last > 0
          /\ Unparseable(fileLines[res.last]))
          => res.kind = "error"
    /\ \A i \in 1..Len(cache) : ~Unparseable(fileLines[cache[i].lineno])

\* C10 witness: an advance ended on an unparseable line after the cache
\* already held an entry
C10_Witness ==
    /\ res.op = "advance" /\ res.kind = "error" /\ res.last > 1
    /\ Unparseable(fileLines[res.last])
    /\ Len(cache) > 0

-----------------------------------------------------------------------------
(* Claims about the tail reader (checked under SpecTail) *)

\* C6: once the followed path names a file of another identity than the
\* one the reader holds, the reader's identity check closes the old handle
\* and reopens: no line is returned through a handle that an identity
\* check has seen the path differ from.
C6_RotationDetected ==
    ~(tres.kind = "line" /\ tres.missedRot)

\* C7: once the followed file is shorter than the reader's offset in it, a
\* poll reopens the file: no line is returned through a handle whose
\* offset a size check has seen beyond the end of the file.
C7_NoStaleOffset ==
    ~(tres.kind = "line" /\ tres.missedTrunc)

LoadPcs == {"load_begin", "load_open", "load_stat", "load_sleep"}

C9_FormatFailureSkipped ==
    /\ [][(/\ pc = "read" /\ pc' # pc
           /\ tfd.off < Len(inodes[tfd.ino])
           /\ ~FormatLine(tfd.off + 1,
                          RawLine(inodes[tfd.ino][tfd.off + 1]), tyear).ok)
          => (/\ pc' = "sleep"
              /\ tres' = tres /\ tres.kind = "pending"
              /\ tfd'.off = tfd.off + 1)]_vars
    /\ [](tres.kind \in {"none", "pending", "line"})
    /\ [](tres.kind = "line"
            => FormatLine(tres.idx, RawLine(tres.id), 0).ok)

\* C9 witness: a call skipped a line and returned the line after it
C9_Witness ==
    tres.kind = "line" /\ hist.skipped /\ tres.idx = 2

\* C11: a load attempt that finds the file it had opened before still at
\* the path but not readable ends the call with an error; it does not go
\* on to the wait and the next attempt.
C11_UnreadableSurfaced ==
    [][(/\ pc = "load_begin" /\ pc' # pc
        /\ pathIno # 0 /\ tyear = MtimeYear(pathIno)
        /\ ~readable)
       => (tres'.kind = "error" /\ pc' = "idle")]_vars

-----------------------------------------------------------------------------
(* Further claims about the file iterator *)

\* The message of the entry that begins at line i of the file: the
\* message of line i joined by newlines with the lines after it that begin
\* with a space or a tab.
RECURSIVE Continued(_, _)
Continued(msg, j) ==
    IF j > Len(fileLines) THEN msg
    ELSE LET line == RawLine(fileLines[j]) IN
         IF line[1] \in {" ", "\t"}
         THEN Continued(msg \o <<"\n">> \o RStrip(line), j + 1)
         ELSE msg

GroupMessage(i) ==
    Continued(LogEntry(i, RawLine(fileLines[i]), 0).entry.message, i + 1)

\* the lines that begin an entry and are followed by a continuation line
GroupHeads ==
    {i \in 1..(Len(fileLines) - 1) :
        /\ \E k \in 1..Len(EntryLines(1, FALSE)) : EntryLines(1, FALSE)[k] = i
        /\ RawLine(fileLines[i + 1])[1] \in {" ", "\t"}}

\* C14: once the file is read to its end, the cache holds exactly one entry
\* for a well-formed line followed by continuation lines, its message is
\* the line's message joined with all of them in order, and no
\* continuation line is an entry of its own.
C14_ContinuationJoined ==
    loaded =>
       \A i \in GroupHeads :
          /\ Cardinality({k \in 1..Len(cache) : cache[k].lineno = i}) = 1
          /\ \A k \in 1..Len(cache) :
                /\ cache[k].lineno = i => cache[k].message = GroupMessage(i)
                /\ cache[k].lineno # i + 1

\* a step of register_iterator
RegisterStep == res'.op = "register" /\ logVars' # logVars

\* C19: registering a name that is registered fails and changes no cursor;
\* registering a new name adds a cursor with its position unset and
\* changes no other cursor.
C19_RegisterIterator ==
    [][RegisterStep =>
         IF res'.name \in DOMAIN iterators
         THEN res'.kind = "error" /\ iterators' = iterators
         ELSE /\ res'.kind = "ok"
              /\ DOMAIN iterators' = DOMAIN iterators \cup {res'.name}
              /\ iterators'[res'.name] = None
              /\ \A n \in DOMAIN iterators : iterators'[n] = iterators[n]]_vars

\* C19 witness: a registration failed on a cursor whose position is set,
\* beside another registered cursor
C19_Witness ==
    /\ res.op = "register" /\ res.kind = "error"
    /\ iterators[res.name] # None
    /\ \E n \in DOMAIN iterators : n # res.name

\* the first entry of the file that predicate cb accepts, as an outcome
RECURSIVE FirstAccepted(_, _)
FirstAccepted(cb, k) ==
    LET lines == EntryLines(1, FALSE) IN
    IF k > Len(lines) THEN [kind |-> "stop", lineno |-> 0]
    ELSE IF Accepts(cb, LogEntry(lines[k], RawLine(fileLines[lines[k]]),
                                 0).entry)
         THEN [kind |-> "entry", lineno |-> lines[k]]
         ELSE FirstAccepted(cb, k + 1)

\* C20: an advance with a predicate, on a cursor that has been handed
\* nothing since it was created or last signalled exhaustion, returns the
\* first entry of the file that the predicate accepts and signals
\* exhaustion when there is none: no entry is left untested.
C20_FirstAccepted ==
    [][(/\ AdvanceStep
        /\ res'.cb # "none" /\ res'.kind # "error"
        /\ got[res'.name] = NoGot)
       => [kind |-> res'.kind, lineno |-> res'.entry.lineno]
             = FirstAccepted(res'.cb, 1)]_vars

-----------------------------------------------------------------------------
(* Claims about reload and the bulk filters (checked under SpecBulk) and *)
(* about a file that grows (checked under SpecGrow)                      *)

\* a call of a bulk filter that returned
FilterStep == res'.op = "filter" /\ res'.kind = "done" /\ logVars' # logVars

\* C15: a bulk filter that returns leaves the position of every
\* registered cursor, 'default' included, as it was before the call.
C15_FilterKeepsCursors ==
    [][FilterStep => iterators' = iterators]_vars

\* the entries of the whole file that match pat, by their lines, in file
\* order
RECURSIVE MatchingLines(_, _)
MatchingLines(pat, k) ==
    LET lines == EntryLines(1, FALSE) IN
    IF k > Len(lines) THEN <<>>
    ELSE LET e == LogEntry(lines[k], RawLine(fileLines[lines[k]]), 0).entry
         IN  (IF Matches(pat, e) THEN <<lines[k]>> ELSE <<>>)
                \o MatchingLines(pat, k + 1)

\* C16: a bulk filter that returns gives, in file order, exactly the
\* entries of the whole file that match, whatever the cache and the
\* cursors were before the call.
C16_FilterWholeFile ==
    (res.op = "filter" /\ res.kind = "done")
       => res.found = MatchingLines(res.name, 1)

\* C17: after reload returns the cache is empty and every registered
\* cursor is unset, and the advance that follows returns the file's first
\* entry.
C17_ReloadClears ==
    /\ []((res.op = "reload" /\ res.kind # "error")
            => (/\ cache = <<>>
                /\ \A n \in DOMAIN iterators : iterators[n] = None))
    /\ [][(/\ res.op = "reload" /\ res.kind # "error"
           /\ AdvanceStep /\ res'.cb = "none"
           /\ FirstLineParses)
          => (res'.kind = "entry" /\ res'.entry.lineno = 1)]_vars

\* C18: when lines were appended after a cursor signalled exhaustion and
\* the first of them parses, the next advance of that cursor returns the
\* entry of that line.
C18_ResumesAfterGrowth ==
    [][(/\ res.op = "grow" /\ res.kind = "stop"
        /\ AdvanceStep /\ res'.name = res.name /\ res'.cb = "none"
        /\ off < Len(fileLines)
        /\ LogEntry(off + 1, RawLine(fileLines[off + 1]), 0).ok)
       => (res'.kind = "entry" /\ res'.entry.lineno = off + 1)]_vars

-----------------------------------------------------------------------------
(* Claims about the file collection *)

\* the paths of self.logfiles, in order
FileOrder == [i \in 1..Len(logfiles) |-> logfiles[i].path]

Built == collRes.op = "construct"

\* the list is a permutation of the input, ascending by (whole second of
\* the modification time, name), and the same for every order of the input
SortedPermutation ==
    /\ Len(FileOrder) = Len(collInput)
    /\ {FileOrder[i] : i \in 1..Len(FileOrder)}
          = {collInput[i] : i \in 1..Len(collInput)}
    /\ \A i, j \in 1..Len(FileOrder) :
          i < j =>
             LET si == WholeSeconds(collMtime[FileOrder[i]])
                 sj == WholeSeconds(collMtime[FileOrder[j]])
             IN  si < sj \/ (si = sj /\ FileOrder[i] < FileOrder[j])
    /\ \A q \in Arrangements({collInput[i] : i \in 1..Len(collInput)}) :
          Len(q) = Len(collInput)
             => CollectionOrder(q, collMtime) = FileOrder

\* C12 as stated: the list is that sorted permutation, and a file with an
\* earlier modification time always comes before a file with a later one.
C12_EarlierAlwaysFirst ==
    Built =>
       /\ SortedPermutation
       /\ \A i, j \in 1..Len(FileOrder) :
             collMtime[FileOrder[i]] < collMtime[FileOrder[j]] => i < j

\* C12 amended: the list is that sorted permutation, and a file whose
\* modification time lies in an earlier whole second always comes before
\* a file whose modification time lies in a later one.
C12_SortedBySecondThenName ==
    Built =>
       /\ SortedPermutation
       /\ \A i, j \in 1..Len(FileOrder) :
             WholeSeconds(collMtime[FileOrder[i]])
                < WholeSeconds(collMtime[FileOrder[j]]) => i < j

\* C12 witness: a collection built from three paths given in another
\* order than the list's, two of them modified in the same second and one
\* in a later second
C12_Witness ==
    /\ Built /\ Len(FileOrder) = 3 /\ FileOrder # collInput
    /\ \E i, j \in 1..3 :
          /\ i # j
          /\ WholeSeconds(collMtime[FileOrder[i]])
                = WholeSeconds(collMtime[FileOrder[j]])
    /\ \E i, j \in 1..3 :
          WholeSeconds(collMtime[FileOrder[i]])
             < WholeSeconds(collMtime[FileOrder[j]])

\* C13: what an iteration of the collection yields up to its
\* no-more-input signal is the concatenation, in the order of the file
\* list, of the entries of every file: each entry yielded is the next of
\* that concatenation, and the signal comes only when all were yielded.
C13_Concatenation ==
    collRes.op = "next" =>
       /\ collRes.kind = "entry" => collRes.inOrder
       /\ collRes.kind = "stop"
             => (collRes.inOrder /\ collRes.n = Len(AllEntries(1)))


-----------------------------------------------------------------------------
(* Further claims about the tail reader *)

\* C29: whenever the reader holds both an open handle and an identity
\* snapshot, the snapshot is that of the file the handle has open.
C29_SnapshotOfHandle ==
    (tfd.ino # 0 /\ tstat # 0) => tstat = tfd.ino

\* C22: the polling loop of readline starts an iteration only at the call
\* or after its wait, an iteration that reads without returning goes to
\* the wait; load starts an attempt only when it is called or after its
\* wait, and an attempt that fails goes to the wait.
C22_NeverBusyLoops ==
    [][/\ (pc' = "check_ino" /\ pc' # pc) => pc \in {"idle", "sleep"}
       /\ (pc = "read" /\ pc' # pc /\ tres' = tres) => pc' = "sleep"
       /\ (pc = "sleep" /\ pc' # pc) => pc' = "check_ino"
       /\ (pc' = "load_begin" /\ pc' # pc)
             => pc \in {"check_size", "check_fd", "load_sleep"}
       /\ (pc = "load_begin" /\ pc' \notin {"load_begin", "load_open"})
             => pc' = "load_sleep"
       /\ (pc = "load_open" /\ pc' \notin {"load_open", "load_stat"})
             => pc' = "load_sleep"
       /\ (pc = "load_stat" /\ pc' \notin {"load_stat", "read"})
             => pc' = "load_sleep"
       /\ (pc = "load_sleep" /\ pc' # pc) => pc' = "load_begin"]_vars

\* C22 witness: one call waited in load after a failed attempt and waits
\* in the polling loop after reading nothing
C22_Witness ==
    pc = "sleep" /\ hist.waited /\ tres.kind = "pending"

\* C21: after seek_to_end, on a file that is neither rotated nor
\* truncated, readline returns no line that was in the file when
\* seek_to_end was called.
C21_OnlyNewLines ==
    (tres.kind = "line" /\ hist.sought) => tres.idx > hist.seekOld

\* C21 witness: seek_to_end was called on a file that held a line, and
\* readline returned the line appended after it
C21_Witness ==
    /\ tres.kind = "line" /\ hist.sought
    /\ hist.seekOld > 0 /\ tres.idx = hist.seekOld + 1

\* a reader constructed with a path only and never sought to the end
Plain == ~hist.sought /\ ~hist.given

\* the formatter accepts the line
Formats(id) == LogEntry(1, RawLine(id), 0).ok

\* C23: on a file that only grows, a reader opened at offset 0 keeps its
\* handle and moves through the file one line at a time; each line it
\* passes is returned by the call that read it, unless the formatter
\* fails on it; and every line of the file that formats and that the
\* reader has not passed yet is returned in the end.
C23_EveryLineOnceInOrder ==
    /\ [][Plain' =>
            /\ (tres' # tres /\ tres'.kind = "line")
                  => /\ tres'.ino = pathIno
                     /\ tres'.idx = tfd.off + 1
                     /\ tfd'.off = tres'.idx
                     /\ tres'.id = inodes[pathIno][tres'.idx]
            /\ tfd.ino # 0
                  => /\ tfd'.ino = tfd.ino
                     /\ tfd'.off \in {tfd.off, tfd.off + 1}
            /\ (tfd.ino # 0 /\ tfd'.off = tfd.off + 1)
                  => \/ tres' # tres /\ tres'.kind = "line"
                     \/ ~Formats(inodes[tfd.ino][tfd.off + 1])]_vars
    /\ \A k \in 1..MaxTail :
          (/\ Plain /\ pathIno # 0 /\ Len(inodes[pathIno]) >= k
           /\ Formats(inodes[pathIno][k])
           /\ (tfd.ino = 0 \/ tfd.off < k))
             ~> (~Plain \/ (tres.kind = "line" /\ tres.idx = k))

\* C23 witness: the reader returned the last line of a file that grew
\* while it was polling
C23_Witness ==
    /\ Plain /\ tres.kind = "line" /\ tres.idx = MaxTail /\ tpos > 0
    /\ Len(inodes[pathIno]) = MaxTail

\* readline hands a line to the formatter
FormatStep ==
    pc = "read" /\ pc' # pc /\ tfd.off < Len(inodes[tfd.ino])

\* C27: a successful open captures the year of the modification time of
\* the file it opened, and a line is handed to the formatter only with
\* the year of the file the handle has open; never before a year was
\* captured.
C27_YearOfLastOpen ==
    /\ [][(pc = "load_stat" /\ pc' \in {"read", "seek_stat"})
            => tyear' = MtimeYear(tfd'.ino)]_vars
    /\ [][FormatStep
            => (tyear # 0 /\ tyear = MtimeYear(tfd.ino))]_vars


-----------------------------------------------------------------------------
(* Claims about the cache and the cursor positions (checked under SpecBulk) *)

\* entry b is entry a with, at most, another message
SameButMessage(a, b) == [b EXCEPT !.message = a.message] = a

\* C24: an operation other than reload removes, replaces and reorders no
\* cache entry: every entry but the last of the cache before the step is
\* unchanged after it, and the last one is still in its place and differs
\* in its message at most.
C24_CacheAppendOnly ==
    [][res'.op # "reload"
       => /\ Len(cache') >= Len(cache)
          /\ \A i \in 1..Len(cache) :
                IF i < Len(cache) THEN cache'[i] = cache[i]
                ELSE SameButMessage(cache[i], cache'[i])]_vars

\* C24 witness: an advance added an entry behind two cached ones, and a
\* continuation line it read went to the entry it had added
C24_Witness ==
    /\ res.op = "advance" /\ Len(cache) >= 3
    /\ cache[Len(cache)].message # LogEntry(1,
           RawLine(fileLines[cache[Len(cache)].lineno]), 0).entry.message
    /\ cache[1].message = LogEntry(1,
           RawLine(fileLines[cache[1].lineno]), 0).entry.message

\* C25: the position of every registered cursor is unset or an index from
\* 0 to the length of the cache.
C25_CursorWithinCache ==
    \A n \in DOMAIN iterators :
       iterators[n] = None
       \/ (iterators[n] >= 0 /\ iterators[n] <= Len(cache))


-----------------------------------------------------------------------------
(* Claims about the source patterns (checked under SpecSource) *)

\* the source is <F.L>, blanks, a host, blanks, a program and perhaps
\* a [pid], with numbers F and L
FacilityLevelShape ==
    \E b1, b2 \in Blanks, h \in Hosts, p \in Programs,
       i \in {<<>>, <<"[", "1234", "]">>} :
       source = <<"<", "13", ".", "6", ">">> \o b1 \o h \o b2 \o p \o i

\* C26: a source of the shape <F.L> host program[pid] or <F.L> host
\* program with numeric F and L is matched by a facility/level pattern:
\* the entry gets facility F and level L and no version.
C26_FacilityLevelMatched ==
    (fields.done /\ FacilityLevelShape)
       => /\ fields.f.fmt \in {3, 4}
          /\ fields.f.facility = <<"13">>
          /\ fields.f.level = <<"6">>
          /\ fields.f.version = Absent


-----------------------------------------------------------------------------
(* Claims about repeated iteration (checked under SpecPasses) *)

\* a step of LogFileCollection.next
CollNextStep == collRes'.op = "next" /\ collVars' # collVars

-----------------------------------------------------------------------------
(* Claims about termination (checked under SpecSteps) *)

\* line i of the file continues the entry before it
ContinuationLine(i) == RawLine(fileLines[i])[1] \in {" ", "\t"}

\* C28: every advance on a file iterator ends, with an entry, with the
\* exhaustion signal or with an error, after at most two steps for each
\* line of the file, one for each cached entry and two more, whatever the
\* callback (also one that accepts nothing) and however many continuation
\* lines follow each other; so does every next of a collection, which
\* advances at most two of its files.
C28_AdvanceTerminates ==
    /\ res.kind \in {"ok", "entry", "stop", "error"}
    /\ collRes.kind \in {"ok", "entry", "stop", "error"}

\* C28 witness: an advance whose callback accepts nothing read a file of
\* two lines, the second continuing the first, to its end and signalled
\* exhaustion
C28_Witness ==
    /\ res.op = "advance" /\ res.cb = "never" /\ res.kind = "stop"
    /\ Len(fileLines) = 2 /\ res.last = 2
    /\ ContinuationLine(2)
    /\ Len(cache) = 1

=============================================================================
